---- MODULE Spec2Model ----
(***************************************************************************)
(* The translation-file scripts of project-x: the brace/comma repair and   *)
(* fallback chain of rehydrate_ka.py, the one-brace repair of              *)
(* fix_ka_translation.py, and the deep_update helpers that merge the new   *)
(* translations into the loaded tree.                                      *)
(*                                                                         *)
(* A text is a sequence of one-character strings.  A tree is a record:     *)
(*   [t |-> "leaf", v |-> text]      a JSON string (Python str)            *)
(*   [t |-> "node", m |-> f]         a JSON object (Python dict), f a      *)
(*                                   function from key texts to trees      *)
(*   [t |-> "list", items |-> seq]   a JSON array (Python list)            *)
(* Python's dict equality ignores insertion order, as function equality    *)
(* does.                                                                   *)
(***************************************************************************)
EXTENDS Integers, Sequences, FiniteSets, TLC

VARIABLES
    script,         \* which script runs: "rehydrate" or "fix_ka" ("merge": the harness)
    origin,         \* history: how the text of ka/translation.json came about
    pc,             \* the statement the script is at
    ka_file,        \* text of ka/translation.json on disk
    bak_file,       \* text of ka/translation.json.bak, or NoFile
    en_data,        \* rehydrate_ka.py: the tree loaded from en/translation.json
    ka_content,     \* the text read from ka/translation.json (Unbound before the read)
    fixed_content,  \* rehydrate_ka.py: fixed_content; fix_ka_translation.py: content
    ka_data,        \* rehydrate_ka.py: ka_data; fix_ka_translation.py: data (or Unbound)
    log,            \* history: the loader steps taken so far, in order
    variant,        \* merge harness: which deep_update is called
    base,           \* merge harness: the base tree handed to deep_update
    overrides,      \* merge harness: the overrides tree
    merged,         \* merge harness: result of deep_update(base, overrides)
    merged2,        \* merge harness: result of deep_update(merged, overrides)
    heap,           \* object harness: the dict objects, by address
    roots,          \* object harness: the addresses of the bases and of the overrides
    calls,          \* object harness, history: the calls of deep_update so far
    en_file         \* text of en/translation.json on disk, for the scripts that write it

scriptVars == <<origin, ka_file, bak_file, en_data, ka_content, fixed_content,
                ka_data, log>>
mergeVars == <<variant, base, overrides, merged, merged2>>
heapVars == <<heap, roots, calls>>
fileVars == <<en_file>>
vars == <<script, origin, pc, ka_file, bak_file, en_data, ka_content, fixed_content,
          ka_data, log, variant, base, overrides, merged, merged2, heap, roots, calls, en_file>>

----------------------------------------------------------------------------
(* Characters and trees *)

QUOTE == "\""
LBRACE == "{"
RBRACE == "}"
LBRACKET == "["
RBRACKET == "]"
COMMA == ","
COLON == ":"
SPACE == " "
NEWLINE == "\n"

\* JSON whitespace of json.decoder (WHITESPACE_STR ' \t\n\r') and the regex
\* class \s, cut down to the two whitespace characters of the model's alphabet.
WS == {SPACE, NEWLINE}

Leaf(s) == [t |-> "leaf", v |-> s]
Node(f) == [t |-> "node", m |-> f]
List(q) == [t |-> "list", items |-> q]

EmptyMap == [k \in {} |-> Leaf(<<>>)]
EmptyNode == Node(EmptyMap)

IsNode(x) == x.t = "node"
IsLeaf(x) == x.t = "leaf"

\* A Python name that has not been assigned ('data' not in locals()).
Unbound == [t |-> "unbound"]
\* A path that does not exist (os.path.exists is False): a value that is no
\* text, since a text holds one-character strings only, and that can be
\* compared with one.
NoFile == <<"no file">>
\* An exception that leaves deep_update (AttributeError or TypeError).
Raised == [t |-> "raised"]

Min(S) == CHOOSE i \in S : \A j \in S : i <= j

----------------------------------------------------------------------------
(* json.loads: the strict parser, on the model's alphabet *)

\* s[i:i+1]: the character at i, or the empty text past the end.
At(s, i) == IF i >= 1 /\ i <= Len(s) THEN s[i] ELSE ""

\* WHITESPACE.match(s, i).end(): the first index at or after i that holds no
\* whitespace (Len(s) + 1 when only whitespace is left).
SkipWs(s, i) ==
    LET N == {j \in i..Len(s) : s[j] \notin WS}
    IN  IF N = {} THEN Len(s) + 1 ELSE Min(N)

\* What json.loads ends with: a value, or an exception.  JSONDecodeError is
\* the error of a text that is not JSON; RecursionError is raised when the
\* text nests deeper than the interpreter lets the scanner recurse.
ParseOk(v, p) == [ok |-> TRUE, err |-> "", val |-> v, pos |-> p]
ParseErr(e) == [ok |-> FALSE, err |-> e, val |-> Unbound, pos |-> 0]
ParseFail == ParseErr("JSONDecodeError")

\* The nesting depth the scanner reaches before RecursionError (about 1000 in
\* CPython: sys.getrecursionlimit()), scaled down to the texts of the model.
\* The documents of the model nest less deep.
RecursionLimit == 4

\* scanstring(s, end) with strict=True: end is the index after the opening
\* quote.  The text up to the next quote is the string; a control character
\* (the newline) inside it is an error, as is a missing closing quote.  The
\* alphabet has no backslash, so there are no escapes.
ScanString(s, end) ==
    LET Q == {j \in end..Len(s) : s[j] = QUOTE}
    IN  IF Q = {} THEN ParseFail
        ELSE LET j == Min(Q)
                 body == SubSeq(s, end, j - 1)
             IN  IF \E i \in 1..Len(body) : body[i] = NEWLINE
                 THEN ParseFail
                 ELSE ParseOk(body, j + 1)

\* dict(pairs): a later pair with the same key replaces the earlier one.
Put(f, k, v) == [x \in DOMAIN f \cup {k} |-> IF x = k THEN v ELSE f[x]]

RECURSIVE ScanOnce(_, _, _)
RECURSIVE ObjPairs(_, _, _, _)
RECURSIVE ArrItems(_, _, _, _)

\* The loop of JSONObject: end is the index after the opening quote of a key;
\* depth counts the objects and arrays that are open.  An exception of a
\* nested scan leaves the loop as it is.
ObjPairs(s, end, acc, depth) ==
    LET k == ScanString(s, end)
    IN  IF ~k.ok THEN k
        ELSE
        LET e2 == SkipWs(s, k.pos)
        IN  IF At(s, e2) # COLON THEN ParseFail
            ELSE
            LET v == ScanOnce(s, SkipWs(s, e2 + 1), depth)
            IN  IF ~v.ok THEN v
                ELSE
                LET acc2 == Put(acc, k.val, v.val)
                    e4 == SkipWs(s, v.pos)
                IN  IF At(s, e4) = RBRACE THEN ParseOk(Node(acc2), e4 + 1)
                    ELSE IF At(s, e4) # COMMA THEN ParseFail
                    ELSE
                    LET e5 == SkipWs(s, e4 + 1)
                    IN  IF At(s, e5) # QUOTE THEN ParseFail
                        ELSE ObjPairs(s, e5 + 1, acc2, depth)

\* JSONObject(s, end): end is the index after the opening brace.
JSONObject(s, end, depth) ==
    LET e1 == SkipWs(s, end)
    IN  IF At(s, e1) = RBRACE THEN ParseOk(EmptyNode, e1 + 1)
        ELSE IF At(s, e1) # QUOTE THEN ParseFail
        ELSE ObjPairs(s, e1 + 1, EmptyMap, depth)

\* The loop of JSONArray: end is the index of the next item.
ArrItems(s, end, acc, depth) ==
    LET v == ScanOnce(s, end, depth)
    IN  IF ~v.ok THEN v
        ELSE
        LET acc2 == Append(acc, v.val)
            e2 == SkipWs(s, v.pos)
        IN  IF At(s, e2) = RBRACKET THEN ParseOk(List(acc2), e2 + 1)
            ELSE IF At(s, e2) # COMMA THEN ParseFail
            ELSE ArrItems(s, SkipWs(s, e2 + 1), acc2, depth)

\* JSONArray(s, end): end is the index after the opening bracket.
JSONArray(s, end, depth) ==
    LET e1 == SkipWs(s, end)
    IN  IF At(s, e1) = RBRACKET THEN ParseOk(List(<<>>), e1 + 1)
        ELSE ArrItems(s, e1, <<>>, depth)

\* scan_once: a string, an object or an array; the alphabet has no digits and
\* no letters of true, false, null, NaN or Infinity, so anything else is an
\* error.  Entering an object or an array is a recursive call of the scanner
\* (Py_EnterRecursiveCall), which raises RecursionError past the limit.
ScanOnce(s, idx, depth) ==
    IF At(s, idx) = QUOTE THEN
        LET r == ScanString(s, idx + 1)
        IN  IF r.ok THEN ParseOk(Leaf(r.val), r.pos) ELSE r
    ELSE IF At(s, idx) \in {LBRACE, LBRACKET} THEN
        IF depth + 1 > RecursionLimit THEN ParseErr("RecursionError")
        ELSE IF At(s, idx) = LBRACE THEN JSONObject(s, idx + 1, depth + 1)
        ELSE JSONArray(s, idx + 1, depth + 1)
    ELSE ParseFail

\* json.loads(s): JSONDecoder.decode skips leading whitespace, scans one value,
\* skips trailing whitespace and fails on extra data.  pos is unused in the
\* result (0).
Loads(s) ==
    LET r == ScanOnce(s, SkipWs(s, 1), 0)
    IN  IF ~r.ok THEN r
        ELSE IF SkipWs(s, r.pos) # Len(s) + 1 THEN ParseFail
        ELSE ParseOk(r.val, 0)

----------------------------------------------------------------------------
(* json.dump(data, f, ensure_ascii=False, indent=2) *)

\* The strings of the model hold no quote, backslash or control character
\* (ScanString admits none), so the encoder writes them between quotes as they
\* are.  The tree model keeps no insertion order: the keys of an object are
\* written in the order of their characters (as with sort_keys=True), which
\* makes the text a function of the tree.
Indent(level) == [i \in 1..(2 * level) |-> SPACE]

\* The characters a key can hold, in code point order.
CharOrder == <<SPACE, COMMA, COLON, LBRACKET, RBRACKET, "a", "b", "c", "e", "n", "x", "y",
               LBRACE, RBRACE>>
Rank(c) == CHOOSE i \in 1..Len(CharOrder) : CharOrder[i] = c

\* k1 < k2 as Python compares two str.
KeyLess(k1, k2) ==
    \E i \in 1..(Len(k1) + 1) :
        /\ \A j \in 1..(i - 1) : j <= Len(k2) /\ k1[j] = k2[j]
        /\ IF i > Len(k1) THEN Len(k2) >= i
           ELSE i <= Len(k2) /\ Rank(k1[i]) < Rank(k2[i])

FirstKey(keys) == CHOOSE k \in keys : \A x \in keys \ {k} : KeyLess(k, x)

RECURSIVE DumpAt(_, _)
RECURSIVE DumpPairs(_, _, _)
RECURSIVE DumpItems(_, _, _)

DumpPairs(f, keys, level) ==
    IF keys = {} THEN <<>>
    ELSE LET k == FirstKey(keys)
             rest == keys \ {k}
         IN  <<NEWLINE>> \o Indent(level) \o <<QUOTE>> \o k \o <<QUOTE, COLON, SPACE>>
             \o DumpAt(f[k], level)
             \o (IF rest = {} THEN <<>> ELSE <<COMMA>>)
             \o DumpPairs(f, rest, level)

DumpItems(q, i, level) ==
    IF i > Len(q) THEN <<>>
    ELSE <<NEWLINE>> \o Indent(level) \o DumpAt(q[i], level)
         \o (IF i = Len(q) THEN <<>> ELSE <<COMMA>>)
         \o DumpItems(q, i + 1, level)

DumpAt(x, level) ==
    IF x.t = "leaf" THEN <<QUOTE>> \o x.v \o <<QUOTE>>
    ELSE IF x.t = "node" THEN
        IF DOMAIN x.m = {} THEN <<LBRACE, RBRACE>>
        ELSE <<LBRACE>> \o DumpPairs(x.m, DOMAIN x.m, level + 1)
             \o <<NEWLINE>> \o Indent(level) \o <<RBRACE>>
    ELSE
        IF Len(x.items) = 0 THEN <<LBRACKET, RBRACKET>>
        ELSE <<LBRACKET>> \o DumpItems(x.items, 1, level + 1)
             \o <<NEWLINE>> \o Indent(level) \o <<RBRACKET>>

Dump(x) == DumpAt(x, 0)

----------------------------------------------------------------------------
(* rehydrate_ka.py: the repairs *)

\* str.count(c)
Count(s, c) == Cardinality({i \in 1..Len(s) : s[i] = c})

\* Lines 96-107: append the missing '}' or cut the surplus off the end.
BraceBalance(content) ==
    LET diff == Count(content, LBRACE) - Count(content, RBRACE)
    IN  IF diff > 0 THEN content \o [i \in 1..diff |-> RBRACE]
        ELSE IF diff < 0 THEN SubSeq(content, 1, Len(content) + diff)
        ELSE content

\* re.sub(r',(?=\s*X)', '', s): every comma that only whitespace separates
\* from a following X is dropped; the lookahead reads the text being scanned.
RECURSIVE SubCommaFrom(_, _, _)
SubCommaFrom(s, i, closer) ==
    IF i > Len(s) THEN <<>>
    ELSE (IF s[i] = COMMA /\ At(s, SkipWs(s, i + 1)) = closer THEN <<>> ELSE <<s[i]>>)
         \o SubCommaFrom(s, i + 1, closer)

\* Lines 118-119: first the commas before '}', then those before ']'.
CommaStrip(content) == SubCommaFrom(SubCommaFrom(content, 1, RBRACE), 1, RBRACKET)

----------------------------------------------------------------------------
(* fix_ka_translation.py: the repairs *)

\* Lines 18-27: "\n".join(content.splitlines()).  The newline is the only line
\* boundary of the alphabet; splitlines gives no empty last line for a text
\* that ends with a newline.
RECURSIVE SplitLines(_, _, _)
SplitLines(s, i, cur) ==
    IF i > Len(s) THEN (IF cur = <<>> THEN <<>> ELSE <<cur>>)
    ELSE IF s[i] = NEWLINE THEN <<cur>> \o SplitLines(s, i + 1, <<>>)
    ELSE SplitLines(s, i + 1, Append(cur, s[i]))

RECURSIVE JoinLines(_, _)
JoinLines(lines, i) ==
    IF i > Len(lines) THEN <<>>
    ELSE lines[i] \o (IF i = Len(lines) THEN <<>> ELSE <<NEWLINE>>)
         \o JoinLines(lines, i + 1)

CleanLines(content) == JoinLines(SplitLines(content, 1, <<>>), 1)

\* str.rfind('}'): the 0-based index of the last '}', or -1.
RFind(s, c) ==
    LET P == {i \in 1..Len(s) : s[i] = c}
    IN  IF P = {} THEN -1 ELSE (CHOOSE i \in P : \A j \in P : j <= i) - 1

\* Line 41: "} is not near end".
NearEnd == 5

\* Lines 41-42: one '}' is appended when the last '}' is more than NearEnd
\* characters from the end.
OneBraceRepair(content) ==
    IF RFind(content, RBRACE) < Len(content) - NearEnd
    THEN Append(content, RBRACE)
    ELSE content

----------------------------------------------------------------------------
(* deep_update *)

\* dict.get(k, {})
Get(d, k) == IF k \in DOMAIN d.m THEN d.m[k] ELSE EmptyNode

\* fix_ka_translation.py, lines 132-139: recursion into the non-empty dict
\* values of overrides only.  With no key to visit the source is returned as
\* it is; otherwise the first key visited calls source.get or assigns
\* source[key], which raises when source is a str or a list.  Every key leaves
\* its own entry of source, so the result does not depend on the order of the
\* visit; an exception in a nested call leaves the whole call.
RECURSIVE deep_update(_, _)
deep_update(source, overrides_) ==
    LET u == overrides_.m
        returned(key) ==
            IF IsNode(u[key]) /\ DOMAIN u[key].m # {}
            THEN deep_update(Get(source, key), u[key])
            ELSE u[key]
    IN  IF DOMAIN u = {} THEN source
        ELSE IF ~IsNode(source) THEN Raised
        ELSE IF \E key \in DOMAIN u : returned(key) = Raised THEN Raised
        ELSE Node([key \in DOMAIN source.m \cup DOMAIN u |->
                      IF key \in DOMAIN u THEN returned(key) ELSE source.m[key]])

\* rehydrate_ka.py, lines 221-227 (and update_ka_profile_btn.py, lines 12-18):
\* recursion into every dict value of u, the empty one included.
RECURSIVE deep_update_r(_, _)
deep_update_r(d, u_) ==
    LET u == u_.m
        returned(k) ==
            IF IsNode(u[k]) THEN deep_update_r(Get(d, k), u[k]) ELSE u[k]
    IN  IF DOMAIN u = {} THEN d
        ELSE IF ~IsNode(d) THEN Raised
        ELSE IF \E k \in DOMAIN u : returned(k) = Raised THEN Raised
        ELSE Node([k \in DOMAIN d.m \cup DOMAIN u |->
                      IF k \in DOMAIN u THEN returned(k) ELSE d.m[k]])

----------------------------------------------------------------------------
(* The literals and the inputs *)

ka == <<"a">>
kb == <<"b">>
Keys == {ka, kb}

\* new_translations (rehydrate_ka.py 141-218, fix_ka_translation.py 53-130, the
\* same literal): every top-level value is a non-empty dict, "common" and
\* "auction" of leaves (key a here), "home" of nested dicts (key b here).
new_translations ==
    Node(ka :> Node(kb :> Leaf(<<"n">>))
         @@ kb :> Node(ka :> Node(kb :> Leaf(<<"n">>))))

\* The trees en/translation.json can hold (json.load of line 10 succeeded): an
\* empty one, one with the shape of new_translations and one that holds a
\* string where new_translations holds a dict.
EnTrees ==
    { EmptyNode,
      Node(ka :> Node(ka :> Leaf(<<"e">>)) @@ kb :> Node(ka :> Node(ka :> Leaf(<<"e">>)))),
      Node(ka :> Leaf(<<"e">>)) }

\* The values of the documents: strings, among them strings that hold braces,
\* a comma before a closer, and a list.
DocLeaves ==
    { Leaf(<<"x">>), Leaf(<<"{">>), Leaf(<<"}">>), Leaf(<<",", "]">>),
      Leaf(<<"{", ",", "}">>), List(<<Leaf(<<"x">>)>>) }
DocInner == {EmptyNode} \cup {Node(ka :> v) : v \in DocLeaves}
DocVals == DocLeaves \cup DocInner
Docs == {Node(f) : f \in UNION {[S -> DocVals] : S \in SUBSET Keys}}

\* The well-formed texts: what json.dump writes for a document.
WellFormed == {Dump(d) : d \in Docs}

\* Index i of s lies outside every string: an even number of quotes precede it.
Outside(s, i) == Cardinality({j \in 1..(i - 1) : s[j] = QUOTE}) % 2 = 0

\* The number of '}' in the longest tail of s made of '}' and whitespace.
TrailingClosers(s) ==
    LET T == {i \in 1..(Len(s) + 1) : \A j \in i..Len(s) : s[j] \in WS \cup {RBRACE}}
    IN  Count(SubSeq(s, Min(T), Len(s)), RBRACE)

\* s without its last n '}' characters.
RECURSIVE DropLastBraces(_, _)
DropLastBraces(s, n) ==
    IF n = 0 THEN s
    ELSE LET i == RFind(s, RBRACE) + 1
         IN  DropLastBraces(SubSeq(s, 1, i - 1) \o SubSeq(s, i + 1, Len(s)), n - 1)

\* The most closing braces a damaged text misses.
MaxMissing == 2

MissingBraces(s) ==
    {DropLastBraces(s, n) : n \in 1..Min({MaxMissing, TrailingClosers(s)})}

\* s with a comma inserted before index i.
InsertComma(s, i) == SubSeq(s, 1, i - 1) \o <<COMMA>> \o SubSeq(s, i, Len(s))

\* The places of s where an inserted comma comes directly before a closer that
\* is outside the strings, whitespace allowed between them.
CommaPlaces(s) ==
    {i \in 2..Len(s) : Outside(s, i) /\ At(s, SkipWs(s, i)) \in {RBRACE, RBRACKET}}

TrailingCommas(s) == {InsertComma(s, i) : i \in CommaPlaces(s)}

\* The longest arbitrary text.
MaxRawLen == 3

Alphabet == {LBRACE, RBRACE, LBRACKET, RBRACKET, QUOTE, COLON, COMMA, "a", SPACE, NEWLINE}

ShortTexts == UNION {[1..n -> Alphabet] : n \in 0..MaxRawLen}

\* Texts of opening brackets, up to one more than the scanner can nest.
DeepTexts == {[i \in 1..n |-> LBRACKET] : n \in 1..(RecursionLimit + 1)}

\* The texts ka/translation.json can hold at the start of a run, each with the
\* well-formed text it was made of.
Sample(kind, of, text) == [kind |-> kind, of |-> of, text |-> text]

Samples ==
    {Sample("wellformed", s, s) : s \in WellFormed}
    \cup UNION {{Sample("missing", s, t) : t \in MissingBraces(s)} : s \in WellFormed}
    \cup UNION {{Sample("comma", s, t) : t \in TrailingCommas(s)} : s \in WellFormed}
    \cup UNION {UNION {{Sample("both", s, u) : u \in MissingBraces(t)}
                           : t \in TrailingCommas(s)} : s \in WellFormed}
    \cup {Sample("short", t, t) : t \in ShortTexts}
    \cup {Sample("deep", t, t) : t \in DeepTexts}

\* The trees of the merge harness: strings and nodes, two levels deep.
MergeLeaves == {Leaf(<<"x">>), Leaf(<<"y">>)}
MergeFlat == {Node(f) : f \in UNION {[S -> MergeLeaves] : S \in SUBSET Keys}}
MergeVals == MergeLeaves \cup MergeFlat
MergeNodes == {Node(f) : f \in UNION {[S -> MergeVals] : S \in SUBSET Keys}}

----------------------------------------------------------------------------
(* The scripts *)

Event(op, ok, text) == [op |-> op, ok |-> ok, text |-> text]

Idle == [t |-> "idle"]
MergeIdle ==
    /\ variant = Idle /\ base = Idle /\ overrides = Idle
    /\ merged = Idle /\ merged2 = Idle
HeapIdle == heap = Idle /\ roots = Idle /\ calls = Idle
FilesIdle == en_file = Idle

\* Before a run: ka/translation.json holds some text and there is no backup.
\* rehydrate_ka.py has loaded en/translation.json (lines 9-10).
Init ==
    /\ script \in {"rehydrate", "fix_ka"}
    /\ pc = "start"
    /\ origin \in Samples
    /\ ka_file = origin.text
    /\ bak_file = NoFile
    /\ en_data \in (IF script = "rehydrate" THEN EnTrees ELSE {Unbound})
    /\ ka_content = Unbound
    /\ fixed_content = Unbound
    /\ ka_data = Unbound
    /\ log = <<>>
    /\ MergeIdle
    /\ HeapIdle
    /\ FilesIdle

\* rehydrate_ka.py, lines 13-14.
Read ==
    /\ script = "rehydrate" /\ pc = "start"
    /\ ka_content' = ka_file
    /\ pc' = "balance"
    /\ UNCHANGED <<script, origin, ka_file, bak_file, en_data, fixed_content, ka_data, log>>
    /\ UNCHANGED mergeVars
    /\ UNCHANGED heapVars
    /\ UNCHANGED fileVars

\* rehydrate_ka.py, lines 96-107.
Balance ==
    /\ script = "rehydrate" /\ pc = "balance"
    /\ fixed_content' = BraceBalance(ka_content)
    /\ log' = Append(log, Event("balance", TRUE, fixed_content'))
    /\ pc' = "load"
    /\ UNCHANGED <<script, origin, ka_file, bak_file, en_data, ka_content, ka_data>>
    /\ UNCHANGED mergeVars
    /\ UNCHANGED heapVars
    /\ UNCHANGED fileVars

\* rehydrate_ka.py, lines 110-112: the first json.loads, of the balanced text.
\* The handler is "except json.JSONDecodeError": any other exception ends the
\* script.
LoadFixed ==
    /\ script = "rehydrate" /\ pc = "load"
    /\ LET r == Loads(fixed_content)
       IN  /\ log' = Append(log, Event("parse", r.ok, fixed_content))
           /\ ka_data' = (IF r.ok THEN r.val ELSE ka_data)
           /\ pc' = (IF r.ok THEN "merge"
                     ELSE IF r.err = "JSONDecodeError" THEN "strip"
                     ELSE "load_raised")
    /\ UNCHANGED <<script, origin, ka_file, bak_file, en_data, ka_content, fixed_content>>
    /\ UNCHANGED mergeVars
    /\ UNCHANGED heapVars
    /\ UNCHANGED fileVars

\* rehydrate_ka.py, lines 118-119.
Strip ==
    /\ script = "rehydrate" /\ pc = "strip"
    /\ fixed_content' = CommaStrip(fixed_content)
    /\ log' = Append(log, Event("strip", TRUE, fixed_content'))
    /\ pc' = "reload"
    /\ UNCHANGED <<script, origin, ka_file, bak_file, en_data, ka_content, ka_data>>
    /\ UNCHANGED mergeVars
    /\ UNCHANGED heapVars
    /\ UNCHANGED fileVars

\* rehydrate_ka.py, lines 121-138: the second json.loads and the fallback; the
\* handler is a bare "except", which takes every exception.
LoadStripped ==
    /\ script = "rehydrate" /\ pc = "reload"
    /\ LET r == Loads(fixed_content)
           got == IF r.ok THEN r.val ELSE en_data
       IN  /\ log' = (IF r.ok
                      THEN Append(log, Event("parse", TRUE, fixed_content))
                      ELSE log \o <<Event("parse", FALSE, fixed_content),
                                    Event("fallback", TRUE, fixed_content)>>)
           /\ ka_data' = (IF got = Unbound THEN en_data ELSE got)
    /\ pc' = "merge"
    /\ UNCHANGED <<script, origin, ka_file, bak_file, en_data, ka_content, fixed_content>>
    /\ UNCHANGED mergeVars
    /\ UNCHANGED heapVars
    /\ UNCHANGED fileVars

\* rehydrate_ka.py, line 229: deep_update(ka_data, new_translations); an
\* exception ends the script before the file is opened for writing.
MergeNew ==
    /\ script = "rehydrate" /\ pc = "merge"
    /\ LET r == deep_update_r(ka_data, new_translations)
       IN  /\ ka_data' = (IF r = Raised THEN ka_data ELSE r)
           /\ pc' = (IF r = Raised THEN "merge_raised" ELSE "save")
    /\ UNCHANGED <<script, origin, ka_file, bak_file, en_data, ka_content, fixed_content, log>>
    /\ UNCHANGED mergeVars
    /\ UNCHANGED heapVars
    /\ UNCHANGED fileVars

\* rehydrate_ka.py, lines 232-233.
Save ==
    /\ script = "rehydrate" /\ pc = "save"
    /\ ka_file' = Dump(ka_data)
    /\ pc' = "done"
    /\ UNCHANGED <<script, origin, bak_file, en_data, ka_content, fixed_content, ka_data, log>>
    /\ UNCHANGED mergeVars
    /\ UNCHANGED heapVars
    /\ UNCHANGED fileVars

\* A backup made on every run, without the test for an existing .bak file.
BackupAlways ==
    /\ script = "fix_ka" /\ pc = "start"
    /\ bak_file' = ka_file
    /\ pc' = "read"
    /\ UNCHANGED <<script, origin, ka_file, en_data, ka_content, fixed_content, ka_data, log>>
    /\ UNCHANGED mergeVars
    /\ UNCHANGED heapVars
    /\ UNCHANGED fileVars

\* fix_ka_translation.py, lines 7-10.
Backup ==
    /\ script = "fix_ka" /\ pc = "start"
    /\ bak_file' = (IF bak_file = NoFile THEN ka_file ELSE bak_file)
    /\ pc' = "read"
    /\ UNCHANGED <<script, origin, ka_file, en_data, ka_content, fixed_content, ka_data, log>>
    /\ UNCHANGED mergeVars
    /\ UNCHANGED heapVars
    /\ UNCHANGED fileVars

\* fix_ka_translation.py, lines 13-27.
FixRead ==
    /\ script = "fix_ka" /\ pc = "read"
    /\ ka_content' = ka_file
    /\ fixed_content' = CleanLines(ka_file)
    /\ pc' = "load"
    /\ UNCHANGED <<script, origin, ka_file, bak_file, en_data, ka_data, log>>
    /\ UNCHANGED mergeVars
    /\ UNCHANGED heapVars
    /\ UNCHANGED fileVars

\* fix_ka_translation.py, lines 30-50: json.loads, and after a
\* JSONDecodeError the one-brace repair and a second json.loads under a bare
\* "except"; when that fails too, data stays unassigned.  Any other exception
\* of the first json.loads ends the script.
FixLoad ==
    /\ script = "fix_ka" /\ pc = "load"
    /\ LET r1 == Loads(fixed_content)
           caught == r1.err = "JSONDecodeError"
           repaired == OneBraceRepair(fixed_content)
           r2 == Loads(repaired)
       IN  /\ fixed_content' = (IF caught THEN repaired ELSE fixed_content)
           /\ log' = (IF caught
                      THEN log \o <<Event("parse", FALSE, fixed_content),
                                    Event("brace", TRUE, repaired),
                                    Event("parse", r2.ok, repaired)>>
                      ELSE Append(log, Event("parse", r1.ok, fixed_content)))
           /\ ka_data' = (IF r1.ok THEN r1.val
                          ELSE IF caught /\ r2.ok THEN r2.val
                          ELSE ka_data)
           /\ pc' = (IF r1.ok \/ caught THEN "merge" ELSE "load_raised")
    /\ UNCHANGED <<script, origin, ka_file, bak_file, en_data, ka_content>>
    /\ UNCHANGED mergeVars
    /\ UNCHANGED heapVars
    /\ UNCHANGED fileVars

\* A merge and write that take an empty tree when no tree was loaded, in place
\* of the test "'data' in locals()".
FixMergeSaveUnguarded ==
    /\ script = "fix_ka" /\ pc = "merge"
    /\ LET r == deep_update(IF ka_data = Unbound THEN EmptyNode ELSE ka_data,
                            new_translations)
       IN  /\ ka_data' = (IF r = Raised THEN ka_data ELSE r)
           /\ ka_file' = (IF r = Raised THEN ka_file ELSE Dump(r))
           /\ pc' = (IF r = Raised THEN "merge_raised" ELSE "done")
    /\ UNCHANGED <<script, origin, bak_file, en_data, ka_content, fixed_content, log>>
    /\ UNCHANGED mergeVars
    /\ UNCHANGED heapVars
    /\ UNCHANGED fileVars

\* fix_ka_translation.py, lines 141-152: with data assigned, deep_update and
\* the write (an exception of deep_update ends the script before the write);
\* without, only the message.
FixMergeSave ==
    /\ script = "fix_ka" /\ pc = "merge"
    /\ LET r == IF ka_data = Unbound THEN Unbound
                ELSE deep_update(ka_data, new_translations)
       IN  /\ ka_data' = (IF r \in {Unbound, Raised} THEN ka_data ELSE r)
           /\ ka_file' = (IF r \in {Unbound, Raised} THEN ka_file ELSE Dump(r))
           /\ pc' = (IF r = Raised THEN "merge_raised" ELSE "done")
    /\ UNCHANGED <<script, origin, bak_file, en_data, ka_content, fixed_content, log>>
    /\ UNCHANGED mergeVars
    /\ UNCHANGED heapVars
    /\ UNCHANGED fileVars

\* The script has ended: after its last statement, or with an exception.
Ended == pc \in {"done", "load_raised", "merge_raised"}

\* fix_ka_translation.py is run again: the files are as the last run left
\* them, the variables of the script are new.
FixRerun ==
    /\ script = "fix_ka" /\ Ended
    /\ pc' = "start"
    /\ ka_content' = Unbound
    /\ fixed_content' = Unbound
    /\ ka_data' = Unbound
    /\ log' = <<>>
    /\ UNCHANGED <<script, origin, ka_file, bak_file, en_data>>
    /\ UNCHANGED mergeVars
    /\ UNCHANGED heapVars
    /\ UNCHANGED fileVars

Next ==
    \/ Read
    \/ Balance
    \/ LoadFixed
    \/ Strip
    \/ LoadStripped
    \/ MergeNew
    \/ Save
    \/ Backup
    \/ FixRead
    \/ FixLoad
    \/ FixMergeSave

Spec == Init /\ [][Next]_vars

\* fix_ka_translation.py run any number of times on the same files.
InitRuns == Init /\ script = "fix_ka"

NextRuns ==
    \/ Backup
    \/ FixRead
    \/ FixLoad
    \/ FixMergeSave
    \/ FixRerun

SpecRuns == InitRuns /\ [][NextRuns]_vars

----------------------------------------------------------------------------
(* The merge harness: deep_update on its own, called twice with the same     *)
(* overrides.  deep_update changes its first argument in place and returns   *)
(* it; base keeps the tree as it was before the call, merged is the tree the *)
(* caller holds after it.                                                    *)

\* A merge that leaves a leaf of the base in place where overrides brings a
\* leaf for the same key (dict.setdefault in place of an assignment).
MergeKeepExisting(which, b, o) ==
    LET r == IF which = "fix_ka" THEN deep_update(b, o) ELSE deep_update_r(b, o)
    IN  IF r = Raised \/ ~IsNode(r) \/ ~IsNode(b) THEN r
        ELSE Node([k \in DOMAIN r.m |->
                      IF k \in DOMAIN b.m /\ k \in DOMAIN o.m /\ IsLeaf(o.m[k])
                      THEN b.m[k] ELSE r.m[k]])

Merge(which, b, o) == IF which = "fix_ka" THEN deep_update(b, o) ELSE deep_update_r(b, o)

MergeInit ==
    /\ script = "merge"
    /\ pc = "start"
    /\ variant \in {"fix_ka", "rehydrate"}
    /\ base \in MergeNodes
    /\ overrides \in MergeNodes
    /\ merged = Idle
    /\ merged2 = Idle
    /\ origin = Idle /\ ka_file = Idle /\ bak_file = Idle /\ en_data = Idle
    /\ ka_content = Idle /\ fixed_content = Idle /\ ka_data = Idle /\ log = Idle
    /\ HeapIdle
    /\ FilesIdle

\* merged = deep_update(base, overrides)
MergeOnce ==
    /\ script = "merge" /\ pc = "start"
    /\ merged' = Merge(variant, base, overrides)
    /\ pc' = "merged"
    /\ UNCHANGED <<script, variant, base, overrides, merged2>>
    /\ UNCHANGED scriptVars
    /\ UNCHANGED heapVars
    /\ UNCHANGED fileVars

\* merged2 = deep_update(merged, overrides); there is no second call when the
\* first one raised.
MergeAgain ==
    /\ script = "merge" /\ pc = "merged" /\ merged # Raised
    /\ merged2' = Merge(variant, merged, overrides)
    /\ pc' = "merged2"
    /\ UNCHANGED <<script, variant, base, overrides, merged>>
    /\ UNCHANGED scriptVars
    /\ UNCHANGED heapVars
    /\ UNCHANGED fileVars

MergeNext ==
    \/ MergeOnce
    \/ MergeAgain

SpecMerge == MergeInit /\ [][MergeNext]_vars

----------------------------------------------------------------------------
(* The object harness: deep_update on dict objects.  A dict has an identity  *)
(* and is changed in place; the heap is the sequence of the dict objects, an *)
(* address is an index into it, and a value held under a key is a leaf (a    *)
(* str, immutable) or the address of a dict.  Two bases and two overrides    *)
(* trees are built with no dict in common and deep_update is called on them  *)
(* in any order.                                                             *)

Ref(a) == [t |-> "ref", a |-> a]
IsRef(x) == x.t = "ref"

\* The heap after a call and what the call returned (Raised: an exception).
HeapResult(h, r) == [heap |-> h, ret |-> r]

\* The tree a value of the heap stands for.
RECURSIVE Value(_, _)
Value(h, v) ==
    IF IsRef(v) THEN Node([k \in DOMAIN h[v.a] |-> Value(h, h[v.a][k])]) ELSE v

RECURSIVE deep_update_h(_, _, _, _)
RECURSIVE UpdateKeys(_, _, _, _, _)

\* The loop "for key, value in overrides.items()" over the keys still to be
\* visited, in the order of the keys (the model keeps no insertion order).
\* fix_ka_translation.py, lines 133-139 ("isinstance(value, dict) and value")
\* and rehydrate_ka.py, lines 222-227 ("isinstance(v, dict)").  source.get on
\* a str and an item assignment to a str raise; source.get(key, {}) makes a
\* new dict for a missing key; every other value is assigned as the object
\* it is.  An exception leaves the assignments made so far in place.
UpdateKeys(h, which, source, ov, keys) ==
    IF keys = {} THEN HeapResult(h, source)
    ELSE LET key == FirstKey(keys)
             value == h[ov][key]
             recurse == IsRef(value) /\ (which # "fix_ka" \/ DOMAIN h[value.a] # {})
         IN  IF ~IsRef(source) THEN HeapResult(h, Raised)
             ELSE IF recurse
             THEN LET missing == key \notin DOMAIN h[source.a]
                      h1 == IF missing THEN Append(h, EmptyMap) ELSE h
                      sub == IF missing THEN Ref(Len(h) + 1) ELSE h[source.a][key]
                      r == deep_update_h(h1, which, sub, value.a)
                  IN  IF r.ret = Raised THEN r
                      ELSE UpdateKeys([r.heap EXCEPT ![source.a] = Put(@, key, r.ret)],
                                      which, source, ov, keys \ {key})
             ELSE UpdateKeys([h EXCEPT ![source.a] = Put(@, key, value)],
                             which, source, ov, keys \ {key})

\* A deep_update that returns a copy of the dict it has updated.
deep_update_copy(h, which, source, ov) ==
    LET r == UpdateKeys(h, which, source, ov, DOMAIN h[ov])
    IN  IF r.ret = Raised \/ ~IsRef(r.ret) THEN r
        ELSE HeapResult(Append(r.heap, r.heap[r.ret.a]), Ref(Len(r.heap) + 1))

\* deep_update(source, overrides) of the script "which"; overrides is the
\* address of a dict.
deep_update_h(h, which, source, ov) == UpdateKeys(h, which, source, ov, DOMAIN h[ov])

\* A tree built as new objects (a dict literal, or the result of json.loads).
RECURSIVE Alloc(_, _)
RECURSIVE AllocKeys(_, _, _, _)
AllocKeys(h, a, tree, keys) ==
    IF keys = {} THEN HeapResult(h, Ref(a))
    ELSE LET k == FirstKey(keys)
             r == Alloc(h, tree.m[k])
         IN  AllocKeys([r.heap EXCEPT ![a] = Put(@, k, r.ret)], a, tree, keys \ {k})

Alloc(h, tree) ==
    IF IsNode(tree) THEN AllocKeys(Append(h, EmptyMap), Len(h) + 1, tree, DOMAIN tree.m)
    ELSE HeapResult(h, tree)

HeapBases ==
    { EmptyNode,
      Node(ka :> Leaf(<<"x">>)),
      Node(ka :> Node(kb :> Leaf(<<"x">>))),
      Node(ka :> Node(kb :> Leaf(<<"x">>)) @@ kb :> Leaf(<<"x">>)) }

HeapOverrides ==
    { EmptyNode,
      Node(ka :> Leaf(<<"y">>)),
      Node(ka :> EmptyNode),
      Node(ka :> Node(kb :> Leaf(<<"y">>))),
      Node(ka :> EmptyNode @@ kb :> Node(ka :> Leaf(<<"y">>))) }

MaxCalls == 3

Call(i, j, before, r) ==
    [b |-> i, o |-> j, before |-> before, after |-> r.heap, ret |-> r.ret]

HeapInit ==
    /\ script = "heap"
    /\ pc = "calls"
    /\ variant \in {"fix_ka", "rehydrate"}
    /\ \E b1 \in HeapBases, b2 \in HeapBases, o1 \in HeapOverrides, o2 \in HeapOverrides :
          LET r1 == Alloc(<<>>, b1)
              r2 == Alloc(r1.heap, b2)
              r3 == Alloc(r2.heap, o1)
              r4 == Alloc(r3.heap, o2)
          IN  /\ heap = r4.heap
              /\ roots = [b |-> <<r1.ret.a, r2.ret.a>>, o |-> <<r3.ret.a, r4.ret.a>>]
    /\ calls = <<>>
    /\ base = Idle /\ overrides = Idle /\ merged = Idle /\ merged2 = Idle
    /\ origin = Idle /\ ka_file = Idle /\ bak_file = Idle /\ en_data = Idle
    /\ ka_content = Idle /\ fixed_content = Idle /\ ka_data = Idle /\ log = Idle
    /\ FilesIdle

\* deep_update(B_i, O_j); an exception ends the caller.
HeapCall(i, j) ==
    /\ script = "heap" /\ Len(calls) < MaxCalls
    /\ \A n \in 1..Len(calls) : calls[n].ret # Raised
    /\ LET r == deep_update_h(heap, variant, Ref(roots.b[i]), roots.o[j])
       IN  /\ heap' = r.heap
           /\ calls' = Append(calls, Call(i, j, heap, r))
    /\ UNCHANGED <<script, pc, roots>>
    /\ UNCHANGED scriptVars
    /\ UNCHANGED mergeVars
    /\ UNCHANGED fileVars

HeapNext == \E i \in 1..2, j \in 1..2 : HeapCall(i, j)

SpecHeap == HeapInit /\ [][HeapNext]_vars

----------------------------------------------------------------------------
(* The scripts that patch a file in place: update_translations_3.py,         *)
(* update_translations.py and remove_duplicates.py.                          *)

common == <<"c">>
auction == <<"a">>
kx == <<"x">>

\* update_translations_3.py, lines 8-24: one new key under each of "auction"
\* and "common", with a value per language.
new_keys_en == Node(auction :> Node(kb :> Leaf(<<"n">>)) @@ common :> Node(kb :> Leaf(<<"n">>)))
new_keys_ka == Node(auction :> Node(kb :> Leaf(<<"y">>)) @@ common :> Node(kb :> Leaf(<<"y">>)))

\* update_translations.py, lines 23-213: top-level keys with dict values.
en_updates == Node(auction :> Node(kb :> Leaf(<<"n">>)) @@ common :> Node(kb :> Leaf(<<"n">>)))
ka_updates == Node(auction :> Node(kb :> Leaf(<<"y">>)) @@ common :> Node(kb :> Leaf(<<"y">>)))

\* key is a substring of text.
Contains(text, key) ==
    \E i \in 0..(Len(text) - Len(key)) : SubSeq(text, i + 1, i + Len(key)) = key

\* Python's "key in x": a key of a dict, a substring of a str, an item of a
\* list.
In(x, key) ==
    IF IsNode(x) THEN key \in DOMAIN x.m
    ELSE IF IsLeaf(x) THEN Contains(x.v, key)
    ELSE \E i \in 1..Len(x.items) : x.items[i] = Leaf(key)

\* A section updated with the values of new for every key, present or not
\* (dict.update).
AddSectionOverwrite(data, sec, new) ==
    LET S == IF sec \in DOMAIN data.m THEN data.m[sec] ELSE EmptyNode
    IN  IF ~IsNode(S) THEN Raised
        ELSE Node(Put(data.m, sec,
                      Node([k \in DOMAIN S.m \cup DOMAIN new.m |->
                               IF k \in DOMAIN new.m THEN new.m[k] ELSE S.m[k]])))

\* update_translations_3.py, lines 35-42 (and 45-52): the section is created
\* empty when data has none; every key of new that is not "in" the section is
\* assigned, which raises when the section is a str or a list.
AddSection(data, sec, new) ==
    LET S == IF sec \in DOMAIN data.m THEN data.m[sec] ELSE EmptyNode
        missing == {k \in DOMAIN new.m : ~In(S, k)}
    IN  IF missing = {} THEN Node(Put(data.m, sec, S))
        ELSE IF ~IsNode(S) THEN Raised
        ELSE Node(Put(data.m, sec,
                      Node([k \in DOMAIN S.m \cup missing |->
                               IF k \in missing THEN new.m[k] ELSE S.m[k]])))

\* update_translations_3.py, lines 34-52, on the tree of one file.  On a
\* list or a str, data["common"] raises, as a subscript or as an assignment.
AddKeys(data, new_keys) ==
    IF ~IsNode(data) THEN Raised
    ELSE LET d == AddSection(data, common, new_keys.m[common])
         IN  IF d = Raised THEN Raised
             ELSE AddSection(d, auction, new_keys.m[auction])

\* update_translations.py, lines 10-17, for one key of new_data: a dict value
\* is assigned sub-key by sub-key into data[key], which raises when data or
\* data[key] is a str or a list; any other value, and a key that is not "in"
\* data, is assigned to data[key].
UpdateKey(data, key, value) ==
    IF In(data, key) /\ IsNode(value)
    THEN IF DOMAIN value.m = {} THEN data
         ELSE IF ~IsNode(data) THEN Raised
         ELSE IF ~IsNode(data.m[key]) THEN Raised
         ELSE Node(Put(data.m, key,
                       Node([k \in DOMAIN data.m[key].m \cup DOMAIN value.m |->
                                IF k \in DOMAIN value.m THEN value.m[k]
                                ELSE data.m[key].m[k]])))
    ELSE IF IsNode(data) THEN Node(Put(data.m, key, value))
    ELSE Raised

\* update_translations.py, line 9: the loop over the keys of new_data still
\* to be visited.
RECURSIVE UpdateKeysOf(_, _, _)
UpdateKeysOf(data, new_data, keys) ==
    IF keys = {} THEN data
    ELSE LET key == FirstKey(keys)
             d == UpdateKey(data, key, new_data.m[key])
         IN  IF d = Raised THEN Raised
             ELSE UpdateKeysOf(d, new_data, keys \ {key})

UpdateTree(data, new_data) == UpdateKeysOf(data, new_data, DOMAIN new_data.m)

\* A section of a translation file: an object, or what a hand-edited file
\* can hold in its place.
Absent == [t |-> "absent"]
SectionVals ==
    {EmptyNode,
     Node(kb :> Leaf(<<"x">>)),
     Node(kx :> Leaf(<<"x">>)),
     Node(kb :> Leaf(<<"x">>) @@ kx :> Leaf(<<"x">>)),
     Leaf(<<"x">>), Leaf(<<"b">>),
     List(<<Leaf(<<"b">>)>>), List(<<Leaf(<<"x">>)>>)}

\* The object with the entries that are not Absent.
FileTree(c, a, x) ==
    LET e == common :> c @@ auction :> a @@ kx :> x
    IN  Node([k \in {k \in DOMAIN e : e[k] # Absent} |-> e[k]])

FileTrees ==
    {FileTree(c, a, x) : c \in SectionVals \cup {Absent},
                         a \in SectionVals \cup {Absent},
                         x \in {Leaf(<<"x">>), Absent}}

\* A text that is not well-formed, and a well-formed one nested deeper than
\* the scanner can follow.
Truncated(text) == SubSeq(text, 1, Len(text) - 1)
RECURSIVE Nested(_, _)
Nested(n, tree) == IF n = 0 THEN tree ELSE List(<<Nested(n - 1, tree)>>)
TooDeep == Nested(RecursionLimit + 1, Leaf(<<"x">>))

\* The texts en/translation.json can hold before a run.
EnTexts ==
    {Dump(t) : t \in FileTrees}
    \cup {Dump(List(<<Leaf(common)>>)),
          Truncated(Dump(FileTree(EmptyNode, Absent, Absent))),
          Dump(FileTree(TooDeep, Absent, Absent))}

\* The texts ka/translation.json can hold before a run.
KaTexts ==
    {Dump(FileTree(c, Absent, Absent)) :
        c \in {Absent, Node(kb :> Leaf(<<"x">>)), Node(kx :> Leaf(<<"x">>)),
               Leaf(<<"x">>), List(<<Leaf(<<"b">>)>>)}}
    \cup {Truncated(Dump(FileTree(EmptyNode, Absent, Absent)))}

\* An object written by hand as a sequence of "key": value pairs, where a key
\* can occur several times.
DupKeys == {ka, kb}
DupVals == {Leaf(<<"x">>), Leaf(<<"y">>), Node(kb :> Leaf(<<"x">>)), TooDeep}
MaxPairs == 3
PairSeqs == UNION {[1..n -> DupKeys \X DupVals] : n \in 1..MaxPairs}

RECURSIVE WritePairsFrom(_, _)
WritePairsFrom(pairs, i) ==
    IF i > Len(pairs) THEN <<>>
    ELSE (IF i > 1 THEN <<COMMA, SPACE>> ELSE <<>>)
         \o <<QUOTE>> \o pairs[i][1] \o <<QUOTE, COLON, SPACE>> \o Dump(pairs[i][2])
         \o WritePairsFrom(pairs, i + 1)

WritePairs(pairs, nested) ==
    LET obj == <<LBRACE>> \o WritePairsFrom(pairs, 1) \o <<RBRACE>>
    IN  IF nested
        THEN <<LBRACE, QUOTE>> \o common \o <<QUOTE, COLON, SPACE>> \o obj \o <<RBRACE>>
        ELSE obj

\* The texts en/translation.json can hold before remove_duplicates.py runs.
DupDocs ==
    {[kind |-> kind, pairs |-> p, nested |-> n,
      en |-> IF kind = "wellformed" THEN WritePairs(p, n) ELSE Truncated(WritePairs(p, n)),
      ka |-> Idle] :
        kind \in {"wellformed", "malformed"}, p \in PairSeqs, n \in BOOLEAN}

\* Before a run of one of the three scripts: the two files hold some text.
FilesInit ==
    /\ script \in {"update_3", "update", "remove_duplicates"}
    /\ pc = "en"
    /\ origin \in (IF script = "remove_duplicates" THEN DupDocs
                   ELSE [en : EnTexts, ka : KaTexts])
    /\ en_file = origin.en
    /\ ka_file = origin.ka
    /\ log = <<>>
    /\ bak_file = Idle /\ en_data = Idle
    /\ ka_content = Idle /\ fixed_content = Idle /\ ka_data = Idle
    /\ MergeIdle
    /\ HeapIdle

File(lang) == IF lang = "en" THEN en_file ELSE ka_file

\* The step after the file of lang: the next language, or the end; an
\* exception ends the script.
After(lang, tree) ==
    IF tree = Raised THEN (IF lang = "en" THEN "en_raised" ELSE "ka_raised")
    ELSE IF lang = "en" THEN "ka" ELSE "done"

FilesEnded == pc \in {"done", "en_raised", "ka_raised"}

\* open(file_path, 'w') and json.dump(data, f, ensure_ascii=False, indent=2);
\* not reached when an exception was raised before.
Written(lang, tree) ==
    [en |-> IF lang = "en" /\ tree # Raised THEN Dump(tree) ELSE en_file,
     ka |-> IF lang = "ka" /\ tree # Raised THEN Dump(tree) ELSE ka_file]

\* update_translations_3.py, one turn of the loop of lines 26-56.
update_translations(lang) ==
    /\ script = "update_3" /\ pc = lang
    /\ LET r == Loads(File(lang))
           new_keys == IF lang = "en" THEN new_keys_en ELSE new_keys_ka
           data == IF r.ok THEN AddKeys(r.val, new_keys) ELSE Raised
       IN  /\ en_file' = Written(lang, data).en
           /\ ka_file' = Written(lang, data).ka
           /\ pc' = After(lang, data)
    /\ UNCHANGED <<script, origin, bak_file, en_data, ka_content, fixed_content, ka_data, log>>
    /\ UNCHANGED mergeVars
    /\ UNCHANGED heapVars

\* update_translations.py, lines 4-21, as called at line 215 and at line 216.
update_json_file(language) ==
    /\ script = "update" /\ pc = language
    /\ LET r == Loads(File(language))
           new_data == IF language = "en" THEN en_updates ELSE ka_updates
           data == IF r.ok THEN UpdateTree(r.val, new_data) ELSE Raised
       IN  /\ en_file' = Written(language, data).en
           /\ ka_file' = Written(language, data).ka
           /\ pc' = After(language, data)
    /\ UNCHANGED <<script, origin, bak_file, en_data, ka_content, fixed_content, ka_data, log>>
    /\ UNCHANGED mergeVars
    /\ UNCHANGED heapVars

\* remove_duplicates.py, lines 4-20: a JSONDecodeError is caught and printed,
\* any other exception ends the script.
remove_duplicates ==
    /\ script = "remove_duplicates" /\ pc = "en"
    /\ LET r == Loads(en_file)
       IN  IF r.ok THEN en_file' = Dump(r.val) /\ pc' = "done"
           ELSE IF r.err = "JSONDecodeError" THEN en_file' = en_file /\ pc' = "done"
           ELSE en_file' = en_file /\ pc' = "en_raised"
    /\ UNCHANGED <<script, origin, ka_file, bak_file, en_data, ka_content, fixed_content,
                   ka_data, log>>
    /\ UNCHANGED mergeVars
    /\ UNCHANGED heapVars

\* update_translations_3.py is run again on the files the last run left; log
\* keeps what each finished run left.
MaxRuns == 2
UpdateRerun ==
    /\ script = "update_3" /\ FilesEnded
    /\ Len(log) + 1 < MaxRuns
    /\ log' = Append(log, [en |-> en_file, ka |-> ka_file, pc |-> pc])
    /\ pc' = "en"
    /\ UNCHANGED <<script, origin, ka_file, bak_file, en_data, ka_content, fixed_content,
                   ka_data>>
    /\ UNCHANGED mergeVars
    /\ UNCHANGED heapVars
    /\ UNCHANGED fileVars

FilesNext ==
    \/ \E lang \in {"en", "ka"} : update_translations(lang)
    \/ \E language \in {"en", "ka"} : update_json_file(language)
    \/ remove_duplicates
    \/ UpdateRerun

SpecFiles == FilesInit /\ [][FilesNext]_vars

----------------------------------------------------------------------------
(* The claims *)

IsTree(x) == x.t \in {"leaf", "node", "list"}

\* The loader of the running script has finished and nothing has been merged.
Loaded == pc = "merge"

\* The loader of the running script is over: it finished, or an exception
\* left it.
LoaderOver == pc \in {"merge", "load_raised"}

FellBack == \E i \in 1..Len(log) : log[i].op = "fallback"

FailedParsesBefore(i) ==
    Cardinality({j \in 1..(i - 1) : log[j].op = "parse" /\ ~log[j].ok})

\* C1: for a well-formed text the loader of rehydrate_ka.py yields the tree of
\* the strict parse of that text, whatever the fallback.
C1_RoundTrip ==
    (script = "rehydrate" /\ LoaderOver /\ Loads(ka_content).ok)
        => (Loaded /\ ka_data = Loads(ka_content).val)

\* C2: deep_update ends without an error for every base and overrides.
C2_MergeTotal ==
    (script = "merge" /\ pc # "start") => merged # Raised

\* What C3 says of a result r of merging o into b: r has every key of o; where
\* b and o both hold a node, r holds a node of which the same is true; at any
\* other key they share, r holds the value of o; under a key of o alone, r has
\* every key of o at every level.
RECURSIVE Covers(_, _)
Covers(o, r) ==
    IsNode(o) =>
        /\ IsNode(r)
        /\ \A k \in DOMAIN o.m : k \in DOMAIN r.m /\ Covers(o.m[k], r.m[k])

RECURSIVE OverridesWin(_, _, _)
OverridesWin(b, o, r) ==
    /\ IsNode(r)
    /\ \A k \in DOMAIN o.m :
        /\ k \in DOMAIN r.m
        /\ IF k \notin DOMAIN b.m THEN Covers(o.m[k], r.m[k])
           ELSE IF IsNode(b.m[k]) /\ IsNode(o.m[k])
                THEN OverridesWin(b.m[k], o.m[k], r.m[k])
           ELSE r.m[k] = o.m[k]

\* C3: after a merge the result has every key of overrides at every level,
\* node against node is merged recursively, and at every other collision the
\* overrides value is in the result.
C3_OverridesWin ==
    (script = "merge" /\ pc # "start") => OverridesWin(base, overrides, merged)

\* C4: merging the same overrides a second time into the result of a merge
\* gives a tree equal to that result.
C4_Idempotent ==
    /\ (script = "merge" /\ pc # "start") => IsTree(merged)
    /\ (script = "merge" /\ pc = "merged2") => merged2 = merged

\* C5: for a text of which the strict parse, the parse after brace balancing
\* and the parse after comma stripping all fail, the loader of rehydrate_ka.py
\* yields exactly the fallback, the EN tree.
C5_TotalFailureFallsBack ==
    (/\ script = "rehydrate" /\ LoaderOver
     /\ ~Loads(ka_content).ok
     /\ ~Loads(BraceBalance(ka_content)).ok
     /\ ~Loads(CommaStrip(BraceBalance(ka_content))).ok)
        => (Loaded /\ ka_data = en_data)

\* C6: whatever the text, the loader (of either script) does not raise and
\* ends with a tree in hand for the merge that follows.
C6_NeverRaisesAlwaysATree ==
    /\ pc # "load_raised"
    /\ Loaded => IsTree(ka_data)

\* C7: when every recovery attempt fails, rehydrate_ka.py still merges and
\* writes, and what it writes is the merge of the new translations into the
\* EN tree.
C7_FallbackPersisted ==
    (/\ script = "rehydrate" /\ pc \in {"done", "merge_raised"}
     /\ FellBack /\ ~Loads(ka_content).ok) =>
        /\ pc = "done"
        /\ ka_data = deep_update_r(en_data, new_translations)
        /\ ka_file = Dump(ka_data)

\* C8: the stages run in the order StrictParse, BraceBalance, CommaStrip,
\* Fallback: the unmodified text is parsed first, balancing comes after one
\* failed parse, comma stripping after two, the fallback after three, and a
\* parse that succeeded is the last step.
C8_StagesInOrder ==
    script = "rehydrate" =>
        /\ log # <<>> => (log[1].op = "parse" /\ log[1].text = ka_content)
        /\ \A i \in 1..Len(log) :
            /\ log[i].op = "balance" => FailedParsesBefore(i) >= 1
            /\ log[i].op = "strip" => FailedParsesBefore(i) >= 2
            /\ log[i].op = "fallback" => FailedParsesBefore(i) >= 3
            /\ (log[i].op = "parse" /\ log[i].ok) => i = Len(log)

\* C9: for a well-formed text that has lost its n >= 1 final closing braces,
\* the loader of rehydrate_ka.py yields the tree of the well-formed text.
C9_BraceRepair ==
    (script = "rehydrate" /\ LoaderOver /\ origin.kind = "missing")
        => (Loaded /\ ka_data = Loads(origin.of).val)

\* C10: for a well-formed text with a comma inserted before a closing brace or
\* bracket, the loader of rehydrate_ka.py yields the tree of the well-formed
\* text, every string value as it was.
C10_TrailingCommaRepair ==
    (script = "rehydrate" /\ LoaderOver /\ origin.kind = "comma")
        => (Loaded /\ ka_data = Loads(origin.of).val)

\* An overrides tree of one key that holds a leaf.
SingleLeaf(o) ==
    /\ IsNode(o)
    /\ Cardinality(DOMAIN o.m) = 1
    /\ \A k \in DOMAIN o.m : IsLeaf(o.m[k])

\* C11: merging {k: v}, v a leaf, into a tree gives a tree with v at k and
\* with the keys and values of the base at every other key, whether or not
\* the base had k and whatever it held there.
C11_SingleLeafFrame ==
    (script = "merge" /\ pc # "start" /\ SingleLeaf(overrides)) =>
        /\ IsNode(merged)
        /\ \A k \in DOMAIN overrides.m :
            /\ merged.m[k] = overrides.m[k]
            /\ DOMAIN merged.m = DOMAIN base.m \cup {k}
            /\ \A j \in DOMAIN base.m \ {k} : merged.m[j] = base.m[j]

\* The base held a node at k and a second key, and the merge is done.
C11_Witness ==
    /\ script = "merge" /\ pc = "merged" /\ SingleLeaf(overrides)
    /\ Cardinality(DOMAIN base.m) = 2
    /\ \E k \in DOMAIN overrides.m : k \in DOMAIN base.m /\ IsNode(base.m[k])

\* C12: where base and overrides both hold a node at a key, the node of the
\* result at that key has every key of the base node that the overrides node
\* does not name, with the value of the base, and every key of the overrides
\* node.
C12_SiblingUnion ==
    (script = "merge" /\ pc # "start") =>
        \A k \in DOMAIN base.m \cap DOMAIN overrides.m :
            (IsNode(base.m[k]) /\ IsNode(overrides.m[k])) =>
                /\ IsNode(merged)
                /\ k \in DOMAIN merged.m
                /\ IsNode(merged.m[k])
                /\ \A j \in DOMAIN base.m[k].m \ DOMAIN overrides.m[k].m :
                       j \in DOMAIN merged.m[k].m /\ merged.m[k].m[j] = base.m[k].m[j]
                /\ \A j \in DOMAIN overrides.m[k].m : j \in DOMAIN merged.m[k].m

\* What C13 says of a result r of merging o into b: at every path where b and
\* o both hold a leaf, r holds the leaf of o.  A result that is no node holds
\* nothing at any path.
RECURSIVE LeafWins(_, _, _)
LeafWins(b, o, r) ==
    \A k \in DOMAIN b.m \cap DOMAIN o.m :
        /\ (IsLeaf(b.m[k]) /\ IsLeaf(o.m[k])) =>
               (IsNode(r) /\ k \in DOMAIN r.m /\ r.m[k] = o.m[k])
        /\ (IsNode(b.m[k]) /\ IsNode(o.m[k])) =>
               LeafWins(b.m[k], o.m[k],
                        IF IsNode(r) /\ k \in DOMAIN r.m THEN r.m[k] ELSE Raised)

\* C13: where base and overrides hold a leaf at the same path, at any depth,
\* the result holds the leaf of overrides at that path.
C13_OverwritePrecedence ==
    (script = "merge" /\ pc # "start") => LeafWins(base, overrides, merged)

\* C15: in deep_update of fix_ka_translation.py, an empty node in overrides
\* against a non-empty node of the base leaves the empty node in the result.
C15_EmptyNodeOverwrites ==
    (script = "merge" /\ variant = "fix_ka" /\ pc # "start") =>
        \A k \in DOMAIN base.m \cap DOMAIN overrides.m :
            (/\ IsNode(base.m[k]) /\ DOMAIN base.m[k].m # {}
             /\ overrides.m[k] = EmptyNode) =>
                (IsNode(merged) /\ k \in DOMAIN merged.m /\ merged.m[k] = EmptyNode)

\* C19: the two variants of deep_update return equal trees for every base and
\* every overrides: the result of the variant that ran is the result of the
\* other one.
C19_VariantsAgree ==
    (script = "merge" /\ pc # "start") =>
        merged = (IF variant = "fix_ka" THEN deep_update_r(base, overrides)
                  ELSE deep_update(base, overrides))

\* C14: deep_update of fix_ka_translation.py with an empty overrides returns
\* the dict it was given as base, and no dict has changed.
C14_EmptyOverridesNoOp ==
    (script = "heap" /\ variant = "fix_ka") =>
        \A n \in 1..Len(calls) :
            DOMAIN calls[n].before[roots.o[calls[n].o]] = {} =>
                /\ calls[n].ret = Ref(roots.b[calls[n].b])
                /\ calls[n].after = calls[n].before

\* A call with an empty overrides was made on a base that was not empty.
C14_Witness ==
    /\ script = "heap" /\ variant = "fix_ka"
    /\ \E n \in 1..Len(calls) :
          /\ DOMAIN calls[n].before[roots.o[calls[n].o]] = {}
          /\ DOMAIN calls[n].before[roots.b[calls[n].b]] # {}

\* C16: after a sequence of calls of deep_update of fix_ka_translation.py
\* into one base, the overrides tree of every call is the tree it was before
\* that call.
C16_OverridesReadOnly ==
    (/\ script = "heap" /\ variant = "fix_ka"
     /\ \A m \in 1..Len(calls) : calls[m].b = calls[1].b) =>
        \A n \in 1..Len(calls) :
            Value(heap, Ref(roots.o[calls[n].o]))
                = Value(calls[n].before, Ref(roots.o[calls[n].o]))

\* Before call n both bases have been merged with overrides tree j.
BothMerged(n, j) ==
    /\ \E p \in 1..(n - 1) : calls[p].b = 1 /\ calls[p].o = j
    /\ \E q \in 1..(n - 1) : calls[q].b = 2 /\ calls[q].o = j

\* The heap after the calls made on base i alone, from call k on, applied to
\* heap h.
RECURSIVE Replay(_, _, _)
Replay(i, k, h) ==
    IF k > Len(calls) THEN h
    ELSE IF calls[k].b # i THEN Replay(i, k + 1, h)
    ELSE LET r == deep_update_h(h, variant, Ref(roots.b[i]), roots.o[calls[k].o])
         IN  IF r.ret = Raised THEN r.heap ELSE Replay(i, k + 1, r.heap)

\* C17: two bases built with no dict in common have each been merged with the
\* same overrides tree; a further merge into one of them changes neither the
\* other base nor that overrides tree, and each base is the tree that its own
\* calls alone give.
C17_NoInterference ==
    (script = "heap" /\ calls # <<>>) =>
        LET n == Len(calls)
            c == calls[n]
            other == 3 - c.b
        IN  \A j \in 1..2 :
                BothMerged(n, j) =>
                    /\ Value(heap, Ref(roots.b[other]))
                           = Value(c.before, Ref(roots.b[other]))
                    /\ Value(heap, Ref(roots.o[j])) = Value(c.before, Ref(roots.o[j]))
                    /\ \A i \in 1..2 :
                           Value(heap, Ref(roots.b[i]))
                               = Value(Replay(i, 1, calls[1].before), Ref(roots.b[i]))

\* C18: for a well-formed text that has been given a trailing comma before a
\* closer and has then lost final closing braces, the loader of
\* rehydrate_ka.py yields the tree of the well-formed text, without the
\* fallback.
C18_RepairsCompose ==
    (script = "rehydrate" /\ LoaderOver /\ origin.kind = "both")
        => (Loaded /\ ~FellBack /\ ka_data = Loads(origin.of).val)

\* Every json.loads the script has made so far has failed.
NoParseSucceeded == \A i \in 1..Len(log) : log[i].op = "parse" => ~log[i].ok

\* C20: when the parse of fix_ka_translation.py fails and the parse after the
\* one-brace repair fails too, no tree is loaded, nothing is merged and
\* ka/translation.json keeps the text it had before the run.
C20_WritesOnlyWithATree ==
    (script = "fix_ka" /\ NoParseSucceeded) =>
        /\ ka_file = origin.text
        /\ ka_data = Unbound
        /\ pc # "merge_raised"

\* The script has ended after two failed parses.
C20_Witness ==
    /\ script = "fix_ka" /\ pc = "done"
    /\ Len(log) = 3 /\ ~log[1].ok /\ ~log[3].ok
    /\ bak_file = origin.text

\* C21: over any number of runs of fix_ka_translation.py, once the first run
\* is past its backup step translation.json.bak holds the text that
\* translation.json had when that run started, whatever has been written to
\* translation.json since.
C21_BackupWrittenOnce ==
    script = "fix_ka" =>
        IF bak_file = NoFile THEN pc = "start" /\ ka_file = origin.text
        ELSE bak_file = origin.text

\* A later run is past its backup step after an earlier run rewrote
\* translation.json.
C21_Witness ==
    /\ script = "fix_ka" /\ pc = "read"
    /\ ka_file # origin.text
    /\ bak_file = origin.text

\* The section sec of a file tree, empty when the file has none.
Section(tree, sec) == IF sec \in DOMAIN tree.m THEN tree.m[sec] ELSE EmptyNode

\* The text after is the text before, or the tree of after is the tree of
\* before with nothing changed but keys of new added where the two sections
\* had none.
AddOnly(before, after, new) ==
    \/ after = before
    \/ LET b == Loads(before)
           a == Loads(after)
       IN  /\ b.ok /\ a.ok /\ IsNode(b.val) /\ IsNode(a.val)
           /\ DOMAIN a.val.m = DOMAIN b.val.m \cup {common, auction}
           /\ \A k \in DOMAIN b.val.m \ {common, auction} : a.val.m[k] = b.val.m[k]
           /\ \A sec \in {common, auction} :
                  LET S == Section(b.val, sec)
                      T == a.val.m[sec]
                  IN  IF IsNode(S)
                      THEN /\ IsNode(T)
                           /\ DOMAIN T.m = DOMAIN S.m \cup DOMAIN new.m[sec].m
                           /\ \A k \in DOMAIN S.m : T.m[k] = S.m[k]
                           /\ \A k \in DOMAIN new.m[sec].m \ DOMAIN S.m :
                                  T.m[k] = new.m[sec].m[k]
                      ELSE T = S

Preserved(new_data, before, after) ==
    /\ IsNode(after)
    /\ \A key \in DOMAIN before.m \ DOMAIN new_data.m :
           key \in DOMAIN after.m /\ after.m[key] = before.m[key]
    /\ \A key \in DOMAIN before.m \cap DOMAIN new_data.m :
           IsNode(new_data.m[key]) =>
               /\ key \in DOMAIN after.m /\ IsNode(after.m[key])
               /\ \A sub \in DOMAIN new_data.m[key].m :
                      /\ sub \in DOMAIN after.m[key].m
                      /\ after.m[key].m[sub] = new_data.m[key].m[sub]
               /\ IsNode(before.m[key]) =>
                      \A sub \in DOMAIN before.m[key].m \ DOMAIN new_data.m[key].m :
                          /\ sub \in DOMAIN after.m[key].m
                          /\ after.m[key].m[sub] = before.m[key].m[sub]

\* The file of a call of update_json_file is a well-formed object that has a
\* top-level key of new_data.
SharesKey(text, new_data) ==
    LET b == Loads(text)
    IN  b.ok /\ IsNode(b.val) /\ DOMAIN b.val.m \cap DOMAIN new_data.m # {}

\* C23: update_json_file preserves what it is not told to change and
\* completes whatever the file holds at a top-level key it shares with
\* new_data: after the call on a well-formed object file, the call has not
\* raised and the tree written is the tree read with only the sub-keys of
\* new_data replaced.
C23_PreservesAndCompletes ==
    /\ (script = "update" /\ pc # "en" /\ SharesKey(origin.en, en_updates)) =>
           /\ pc # "en_raised"
           /\ Preserved(en_updates, Loads(origin.en).val, Loads(en_file).val)
    /\ (script = "update" /\ pc \in {"done", "ka_raised"}
            /\ SharesKey(origin.ka, ka_updates)) =>
           /\ pc # "ka_raised"
           /\ Preserved(ka_updates, Loads(origin.ka).val, Loads(ka_file).val)

\* The object that has each key of pairs[i..] once, with the value of its last
\* occurrence, over the entries of f.
RECURSIVE LastFrom(_, _, _)
LastFrom(pairs, i, f) ==
    IF i > Len(pairs) THEN Node(f)
    ELSE LastFrom(pairs, i + 1, Put(f, pairs[i][1], pairs[i][2]))

LastOccurrences(doc) ==
    IF doc.nested THEN Node(common :> LastFrom(doc.pairs, 1, EmptyMap))
    ELSE LastFrom(doc.pairs, 1, EmptyMap)

\* A key occurs several times in the object.
HasDuplicate(pairs) ==
    \E i, j \in 1..Len(pairs) : i < j /\ pairs[i][1] = pairs[j][1]

\* C24: remove_duplicates keeps the last occurrence.  After the script has
\* run on a well-formed file in which a key occurs several times in one
\* object, the file holds each key once, with the value of its last
\* occurrence; after it has run on a text that is not well-formed JSON, the
\* file holds what it held.
C24_KeepsLastOccurrence ==
    (script = "remove_duplicates" /\ pc # "en") =>
        /\ (origin.kind = "wellformed" /\ HasDuplicate(origin.pairs)) =>
               pc = "done" /\ en_file = Dump(LastOccurrences(origin))
        /\ origin.kind = "malformed" => en_file = origin.en

====
